---- MODULE Spec2Model ----
(***************************************************************************)
(* Real-time gateway of circlesfera-backend: AppGateway (socket            *)
(* connection lifecycle, presence, event routing) and the ChatService /    *)
(* NotificationsService calls that publish through it.                     *)
(*                                                                         *)
(* Every async handler is cut at its await points: one action per          *)
(* resumption.  `await client.join(...)` resolves without I/O, so a join   *)
(* belongs to the step that precedes it.                                   *)
(***************************************************************************)
EXTENDS Integers, Sequences, FiniteSets, TLC

\* ------------------------------------------------------------------ bounds
MaxConns == 2
MaxReqs == 2

Conns == 1..MaxConns
Reqs == 1..MaxReqs
Users == {"u1", "u2", "u3"}
None == "none"
MessageIds == {1, 9}
ConversationIds == {1, 9}
TempIds == {"t1"}
Senders == {"u1", "u3"}
RecipientIds == {None, "u2", "u3"}
Emojis == {"like", "heart"}

\* ---------------------------------------------------------------- values
NoToken == "undefined"
Reject == "reject"
Tokens == {"tok_u1", "tok_u2", "bad"}

VARIABLES
  cpc,        \* per connection: position of handleConnection
  dpc,        \* per connection: position of handleDisconnect
  open,       \* per connection: the transport is connected
  tok,        \* per connection: the token extractToken returned (NoToken when falsy)
  user,       \* per connection: client.data.user.sub, None while unset
  rooms,      \* per connection: rooms the socket is a member of
  following,  \* per connection: handleConnection's local `following` (followed ids)
  follows,    \* follow table: set of <<followerId, followingId, status>>
  isOnline,   \* users table: isOnline column
  lastSeenAt, \* users table: lastSeenAt column, as the number of times it was
              \* written (0: never; every write stores a new timestamp)
  presLog,    \* per user: user_status events published to presence:<user>, in order
  trans,      \* history: per user, number of 0->1 and 1->0 changes of the live-connection count
  hist,       \* history: per user, how its connections have closed so far
  messages,   \* messages table: set of [id, conversationId, senderId]
  reactions,  \* message_reactions table: set of [id, messageId, userId, reaction]
  conversations, \* conversations table with its participant rows:
                 \* set of [id, isGroup, participants (sequence of userIds)]
  nextId,     \* the next generated record id
  rx,         \* per send_reaction invocation: position, arguments, locals, published events
  sm,         \* per ChatService.sendMessage call: position, arguments, locals, published events
  lastReadAt, \* participants table: the <<conversationId, userId>> rows whose
              \* lastReadAt has been written
  mr,         \* per mark_read invocation: position, arguments, published events
  ra,         \* per ChatService.markAsRead call (PUT conversations/:id/read): position, arguments
  notifications, \* notifications table: set of [id, recipientId, senderId]
  nt,         \* per NotificationsService.create call: position, arguments, locals,
              \* published events
  inbox,      \* per connection: ids of the notification events sent to its client, in order
  tg,         \* per FollowsService.toggle call: position, arguments, locals, result
  ty,         \* per typing_start / typing_stop invocation: arguments, published events
  dc,         \* per ChatService.deleteConversation call: position, arguments, locals,
              \* published events
  cg          \* per ChatService.createGroup call: position, arguments, result

gatewayVars == <<cpc, dpc, open, tok, user, rooms, following, follows, isOnline,
                 lastSeenAt, presLog, trans, hist>>
chatVars == <<messages, reactions, conversations, nextId, rx, sm>>
markReadVars == <<lastReadAt, mr, ra>>
notifyVars == <<notifications, nt, inbox>>
toggleVars == <<tg>>
routeVars == <<markReadVars, notifyVars, toggleVars>>
serviceVars == <<ty, dc, cg>>
extVars == <<routeVars, serviceVars>>
gatewayExceptFollows == <<cpc, dpc, open, tok, user, rooms, following, isOnline,
                          lastSeenAt, presLog, trans, hist>>
exceptMarkRead == <<gatewayVars, chatVars, notifyVars, toggleVars, serviceVars>>
exceptNotify == <<gatewayVars, messages, reactions, conversations, rx, sm, markReadVars,
                  toggleVars, serviceVars>>
exceptToggle == <<gatewayExceptFollows, messages, reactions, conversations, rx, sm,
                  markReadVars, nt, serviceVars>>
vars == <<gatewayVars, chatVars, extVars>>

\* ------------------------------------------------------------- rooms
UserRoom(u) == <<"user", u>>
PresenceRoom(u) == <<"presence", u>>

\* ------------------------------------------------- handshake and token
\* A handshake: the Cookie header (absent, or parsed to an access_token value
\* that may be missing) and the Authorization header (absent or scheme + rest).
Handshakes ==
  { [cookie |-> None,      scheme |-> None,     cred |-> ""],
    [cookie |-> "",        scheme |-> None,     cred |-> ""],
    [cookie |-> "tok_u1",  scheme |-> None,     cred |-> ""],
    [cookie |-> "tok_u2",  scheme |-> None,     cred |-> ""],
    [cookie |-> "bad",     scheme |-> "Bearer", cred |-> "tok_u1"],
    [cookie |-> None,      scheme |-> "Bearer", cred |-> "tok_u2"],
    [cookie |-> "",        scheme |-> "Bearer", cred |-> "tok_u1"],
    [cookie |-> None,      scheme |-> "Bearer", cred |-> "bad"],
    [cookie |-> None,      scheme |-> "Bearer", cred |-> ""],
    [cookie |-> None,      scheme |-> "Basic",  cred |-> "tok_u1"] }

\* cookie "" stands for a Cookie header without a (non-empty) access_token.
extractToken(h) ==
  IF h.cookie # None /\ h.cookie # ""
    THEN h.cookie
    ELSE IF h.scheme = "Bearer" THEN h.cred ELSE NoToken

\* `if (!token)`: undefined and the empty string are both falsy.
Falsy(t) == t = NoToken \/ t = ""

\* jwtService.verifyAsync: the payload's sub, or a rejection.
verifyAsync(t) ==
  CASE t = "tok_u1" -> "u1"
    [] t = "tok_u2" -> "u2"
    [] OTHER -> Reject

\* ------------------------------------------------------------ counting
LiveConns(u) == {c \in Conns : user[c] = u /\ open[c]}
LiveCount(u) == Cardinality(LiveConns(u))

\* Connections whose handleConnection is suspended at an await.
Accepting == {"verify", "follows", "update", "emit"}

\* Fully accepted, still open connections of u other than c.
OtherConnected(c, u) ==
  {d \in Conns \ {c} : user[d] = u /\ open[d] /\ cpc[d] = "connected"}

\* Connections other than c that are being accepted for identity u.
BeingAccepted(c, u) ==
  {d \in Conns \ {c} : open[d] /\ cpc[d] \in Accepting /\ verifyAsync(tok[d]) = u}

\* hist of a user after the transport of its connection c closed: "dirty" once
\* a transport closed before its handleConnection had completed; else "race"
\* once an only accepted connection closed while another one was being
\* accepted; else unchanged ("clean" from the start).
CloseContext(c) ==
  IF cpc[c] # "connected" \/ hist[user[c]] = "dirty" THEN "dirty"
  ELSE IF OtherConnected(c, user[c]) = {} /\ BeingAccepted(c, user[c]) # {}
    THEN "race"
  ELSE hist[user[c]]

\* `null` where a record id is expected (ids are positive numbers).
NoRecord == 0

\* A request slot no invocation has used yet.
Idle == [pc |-> "idle"]

\* A send_reaction invocation as it is received, before its arguments are set.
NoRx == [pc |-> "idle", client |-> 0, messageId |-> NoRecord, recipientId |-> None,
         reaction |-> None, existing |-> NoRecord, record |-> NoRecord, calls |-> 0,
         rejected |-> FALSE, out |-> <<>>]

\* `undefined` / `null` for a conversation.
NoConv == [id |-> NoRecord, participants |-> <<>>]

\* A sendMessage call as it is made, before its arguments are set.
NoSm == [pc |-> "idle", senderId |-> None, recipientId |-> None,
         conversationId |-> NoRecord, tempId |-> None, conversation |-> NoConv,
         message |-> NoRecord, rejected |-> FALSE, out |-> <<>>]

\* The database holds the 1-on-1 conversation 1 of u1 and u2 with one message,
\* message 1 of u1, and no reaction.
ChatInit ==
  /\ conversations = {[id |-> 1, isGroup |-> FALSE, participants |-> <<"u1", "u2">>]}
  /\ messages = {[id |-> 1, conversationId |-> 1, senderId |-> "u1"]}
  /\ reactions = {}
  /\ nextId = 2
  /\ rx = [r \in Reqs |-> Idle]
  /\ sm = [q \in Reqs |-> Idle]

\* A mark_read invocation as it is received, before its arguments are set.
NoMr == [pc |-> "idle", client |-> 0, conversationId |-> NoRecord,
         recipientId |-> None, calls |-> 0, out |-> <<>>]

\* A markAsRead call as it is made, before its arguments are set.
NoRa == [pc |-> "idle", conversationId |-> NoRecord, userId |-> None,
         rejected |-> FALSE]

\* A NotificationsService.create call as it is made, before its arguments are set.
NoNt == [pc |-> "idle", recipientId |-> None, senderId |-> None,
         notification |-> NoRecord, rejected |-> FALSE, out |-> <<>>]

\* A toggle call as it is made, before its arguments are set.
NoTg == [pc |-> "idle", followingUsername |-> None, followerId |-> None,
         followingId |-> None, status |-> None, notification |-> NoRecord,
         rejected |-> FALSE, result |-> None]

\* A typing_start / typing_stop invocation as it is received, before its
\* arguments are set.
NoTy == [pc |-> "idle", event |-> None, client |-> 0, sender |-> None,
         conversationId |-> NoRecord, recipientId |-> None, calls |-> 0,
         out |-> <<>>]

\* A deleteConversation call as it is made, before its arguments are set.
NoDc == [pc |-> "idle", conversationId |-> NoRecord, userId |-> None,
         conversation |-> NoConv, rejected |-> FALSE, out |-> <<>>]

\* A createGroup call as it is made, before its arguments are set.
NoCg == [pc |-> "idle", userId |-> None, participantIds |-> <<>>, name |-> None,
         uniqueParticipantIds |-> <<>>, result |-> NoRecord, rejected |-> FALSE]

\* No read marker written, no notification, no request made, nothing delivered.
ExtInit ==
  /\ lastReadAt = {}
  /\ mr = [r \in Reqs |-> Idle]
  /\ ra = [q \in Reqs |-> Idle]
  /\ notifications = {}
  /\ nt = [q \in Reqs |-> Idle]
  /\ inbox = [c \in Conns |-> <<>>]
  /\ tg = [q \in Reqs |-> Idle]
  /\ ty = [r \in Reqs |-> Idle]
  /\ dc = [q \in Reqs |-> Idle]
  /\ cg = [q \in Reqs |-> Idle]

----------------------------------------------------------------------------
Init ==
  /\ cpc = [c \in Conns |-> "idle"]
  /\ dpc = [c \in Conns |-> "none"]
  /\ open = [c \in Conns |-> FALSE]
  /\ tok = [c \in Conns |-> NoToken]
  /\ user = [c \in Conns |-> None]
  /\ rooms = [c \in Conns |-> {}]
  /\ following = [c \in Conns |-> {}]
  /\ follows = {<<"u1", "u2", "ACCEPTED">>}
  /\ isOnline = [u \in Users |-> FALSE]
  /\ lastSeenAt = [u \in Users |-> 0]
  /\ presLog = [u \in Users |-> <<>>]
  /\ trans = [u \in Users |-> [up |-> 0, down |-> 0]]
  /\ hist = [u \in Users |-> "clean"]
  /\ ChatInit
  /\ ExtInit

----------------------------------------------------------------------------
\* handleDisconnect without its `if (user)` test.
handleDisconnectEntry_Unconditional(u) == "update"

\* handleDisconnect, synchronous part: `const user = client.data?.user;
\* if (user) { await prisma.user.update(...)`. The position it suspends at.
handleDisconnectEntry(u) == IF u # None THEN "update" ELSE "done"

\* followRooms without the join of the own presence room.
followRooms_WithoutOwn(u, followed) == {PresenceRoom(f) : f \in followed}

\* followRooms joining the personal room of every followed id.
followRooms_PersonalRooms(u, followed) ==
  {UserRoom(f) : f \in followed} \cup {PresenceRoom(u)}

\* Rooms joined by handleConnection once the follow lookup returned `followed`:
\* presence:<f> for every followed id, then the own presence room.
followRooms(u, followed) ==
  {PresenceRoom(f) : f \in followed} \cup {PresenceRoom(u)}

\* The FollowStatus enum.
FollowStatuses == {"PENDING", "ACCEPTED"}

\* The rows of the follow table for the unique pair (followerId, followingId).
followRows(followerId, followingId) ==
  {x \in follows : x[1] = followerId /\ x[2] = followingId}

\* prisma.follow.findMany({ where: { followerId } }), projected on followingId:
\* the rows of the follower, whatever their status.
findManyFollowing(u) == {f \in Users : followRows(u, f) # {}}

\* A close that runs the disconnect processing again on a closed socket.
CloseTransport_Reentrant(c) ==
  /\ open' = [open EXCEPT ![c] = FALSE]
  /\ rooms' = [rooms EXCEPT ![c] = {}]
  /\ dpc' = [dpc EXCEPT ![c] = handleDisconnectEntry(user[c])]
  /\ UNCHANGED <<trans, hist>>

\* The transport of c closes (socket.io: the socket leaves its rooms and the
\* 'disconnect' listener runs handleDisconnect up to its first await).
\* client.disconnect() on a socket that is no longer connected does nothing.
CloseTransport(c) ==
  IF open[c]
    THEN /\ open' = [open EXCEPT ![c] = FALSE]
         /\ rooms' = [rooms EXCEPT ![c] = {}]
         /\ dpc' = [dpc EXCEPT ![c] = handleDisconnectEntry(user[c])]
         /\ trans' = IF user[c] # None /\ LiveCount(user[c]) = 1
                       THEN [trans EXCEPT ![user[c]].down = @ + 1]
                       ELSE trans
         /\ hist' = IF user[c] # None
                      THEN [hist EXCEPT ![user[c]] = CloseContext(c)]
                      ELSE IF verifyAsync(tok[c]) # Reject
                        THEN [hist EXCEPT ![verifyAsync(tok[c])] = "dirty"]
                      ELSE hist
    ELSE UNCHANGED <<open, rooms, dpc, trans, hist>>

\* handleConnection's catch block: log, client.disconnect().
CatchDisconnect(c) ==
  /\ cpc' = [cpc EXCEPT ![c] = "failed"]
  /\ CloseTransport(c)

\* A client opens connection c with handshake h: handleConnection runs to the
\* await of verifyAsync, or throws 'No token found' into its catch block.
HandleConnection(c, h) ==
  /\ cpc[c] = "idle"
  /\ \A d \in Conns : d < c => cpc[d] # "idle"
  /\ tok' = [tok EXCEPT ![c] = IF Falsy(extractToken(h)) THEN NoToken
                                ELSE extractToken(h)]
  /\ IF Falsy(extractToken(h))
       THEN /\ cpc' = [cpc EXCEPT ![c] = "failed"]
            /\ dpc' = [dpc EXCEPT ![c] = handleDisconnectEntry(user[c])]
            /\ UNCHANGED <<open, hist>>
       ELSE /\ cpc' = [cpc EXCEPT ![c] = "verify"]
            /\ open' = [open EXCEPT ![c] = TRUE]
            /\ UNCHANGED <<dpc, hist>>
  /\ UNCHANGED <<user, rooms, following, follows, isOnline, presLog, trans>>
  /\ UNCHANGED <<chatVars, extVars, lastSeenAt>>

\* A handler that attaches the identity without joining the personal room.
VerifyResolved_NoJoin(c) ==
  /\ cpc[c] = "verify"
  /\ verifyAsync(tok[c]) # Reject
  /\ LET u == verifyAsync(tok[c]) IN
       /\ user' = [user EXCEPT ![c] = u]
       /\ trans' = IF open[c] /\ LiveCount(u) = 0
                     THEN [trans EXCEPT ![u].up = @ + 1]
                     ELSE trans
  /\ cpc' = [cpc EXCEPT ![c] = "follows"]
  /\ UNCHANGED <<dpc, open, tok, rooms, following, follows, isOnline, presLog, hist>>
  /\ UNCHANGED <<chatVars, extVars, lastSeenAt>>

\* verifyAsync resolves: data.user = payload, join user:<sub>, issue the follow lookup.
VerifyResolved(c) ==
  /\ cpc[c] = "verify"
  /\ verifyAsync(tok[c]) # Reject
  /\ LET u == verifyAsync(tok[c]) IN
       /\ user' = [user EXCEPT ![c] = u]
       /\ rooms' = [rooms EXCEPT ![c] = @ \cup {UserRoom(u)}]
       /\ trans' = IF open[c] /\ LiveCount(u) = 0
                     THEN [trans EXCEPT ![u].up = @ + 1]
                     ELSE trans
  /\ cpc' = [cpc EXCEPT ![c] = "follows"]
  /\ UNCHANGED <<dpc, open, tok, following, follows, isOnline, presLog, hist>>
  /\ UNCHANGED <<chatVars, extVars, lastSeenAt>>

\* verifyAsync rejects: catch block.
VerifyRejected(c) ==
  /\ cpc[c] = "verify"
  /\ verifyAsync(tok[c]) = Reject
  /\ CatchDisconnect(c)
  /\ UNCHANGED <<tok, user, following, follows, isOnline, presLog>>
  /\ UNCHANGED <<chatVars, extVars, lastSeenAt>>

\* follow.findMany resolves: join the followed presence rooms and the own
\* presence room, issue user.update({ isOnline: true }).
FollowsResolved(c) ==
  /\ cpc[c] = "follows"
  /\ following' = [following EXCEPT ![c] = findManyFollowing(user[c])]
  /\ rooms' = [rooms EXCEPT
                 ![c] = @ \cup followRooms(user[c], findManyFollowing(user[c]))]
  /\ cpc' = [cpc EXCEPT ![c] = "update"]
  /\ UNCHANGED <<dpc, open, tok, user, follows, isOnline, presLog, trans, hist>>
  /\ UNCHANGED <<chatVars, extVars, lastSeenAt>>

\* follow.findMany rejects: catch block.
FollowsRejected(c) ==
  /\ cpc[c] = "follows"
  /\ CatchDisconnect(c)
  /\ UNCHANGED <<tok, user, following, follows, isOnline, presLog>>
  /\ UNCHANGED <<chatVars, extVars, lastSeenAt>>

\* user.update({ isOnline: true }) takes effect in the database.
OnlineUpdateResolved(c) ==
  /\ cpc[c] = "update"
  /\ isOnline' = [isOnline EXCEPT ![user[c]] = TRUE]
  /\ cpc' = [cpc EXCEPT ![c] = "emit"]
  /\ UNCHANGED <<dpc, open, tok, user, rooms, following, follows, presLog, trans, hist>>
  /\ UNCHANGED <<chatVars, extVars, lastSeenAt>>

\* A handler that ignores the failed status write and goes on to its emit.
OnlineUpdateRejected_EmitAnyway(c) ==
  /\ cpc[c] = "update"
  /\ cpc' = [cpc EXCEPT ![c] = "emit"]
  /\ UNCHANGED <<dpc, open, tok, user, rooms, following, follows, isOnline, presLog,
                 trans, hist>>
  /\ UNCHANGED <<chatVars, extVars, lastSeenAt>>

\* user.update rejects: catch block.
OnlineUpdateRejected(c) ==
  /\ cpc[c] = "update"
  /\ CatchDisconnect(c)
  /\ UNCHANGED <<tok, user, following, follows, isOnline, presLog>>
  /\ UNCHANGED <<chatVars, extVars, lastSeenAt>>

\* handleConnection resumes after the update: emit user_status { isOnline: true }.
EmitOnline(c) ==
  /\ cpc[c] = "emit"
  /\ presLog' = [presLog EXCEPT ![user[c]] = Append(@, TRUE)]
  /\ cpc' = [cpc EXCEPT ![c] = "connected"]
  /\ UNCHANGED <<dpc, open, tok, user, rooms, following, follows, isOnline, trans, hist>>
  /\ UNCHANGED <<chatVars, extVars, lastSeenAt>>

\* The client (or the network) closes the transport of c.
TransportClose(c) ==
  /\ open[c]
  /\ CloseTransport(c)
  /\ UNCHANGED <<cpc, tok, user, following, follows, isOnline, presLog>>
  /\ UNCHANGED <<chatVars, extVars, lastSeenAt>>

\* handleDisconnect: user.update({ isOnline: false, lastSeenAt }) takes effect.
OfflineUpdateResolved(c) ==
  /\ dpc[c] = "update"
  /\ isOnline' = [isOnline EXCEPT ![user[c]] = FALSE]
  /\ lastSeenAt' = [lastSeenAt EXCEPT ![user[c]] = @ + 1]
  /\ dpc' = [dpc EXCEPT ![c] = "emit"]
  /\ UNCHANGED <<cpc, open, tok, user, rooms, following, follows, presLog, trans, hist>>
  /\ UNCHANGED <<chatVars, extVars>>

\* handleDisconnect: user.update rejects, the handler's promise rejects.
OfflineUpdateRejected(c) ==
  /\ dpc[c] = "update"
  /\ dpc' = [dpc EXCEPT ![c] = "done"]
  /\ hist' = [hist EXCEPT ![user[c]] = "dirty"]
  /\ UNCHANGED <<cpc, open, tok, user, rooms, following, follows, isOnline, presLog,
                 trans>>
  /\ UNCHANGED <<chatVars, extVars, lastSeenAt>>

\* handleDisconnect resumes: emit user_status { isOnline: false, lastSeenAt }.
EmitOffline(c) ==
  /\ dpc[c] = "emit"
  /\ presLog' = [presLog EXCEPT ![user[c]] = Append(@, FALSE)]
  /\ dpc' = [dpc EXCEPT ![c] = "done"]
  /\ UNCHANGED <<cpc, open, tok, user, rooms, following, follows, isOnline, trans, hist>>
  /\ UNCHANGED <<chatVars, extVars, lastSeenAt>>

Next ==
  \/ \E c \in Conns, h \in Handshakes : HandleConnection(c, h)
  \/ \E c \in Conns : VerifyResolved(c)
  \/ \E c \in Conns : VerifyRejected(c)
  \/ \E c \in Conns : FollowsResolved(c)
  \/ \E c \in Conns : FollowsRejected(c)
  \/ \E c \in Conns : OnlineUpdateResolved(c)
  \/ \E c \in Conns : OnlineUpdateRejected(c)
  \/ \E c \in Conns : EmitOnline(c)
  \/ \E c \in Conns : TransportClose(c)
  \/ \E c \in Conns : OfflineUpdateResolved(c)
  \/ \E c \in Conns : OfflineUpdateRejected(c)
  \/ \E c \in Conns : EmitOffline(c)

Spec == Init /\ [][Next]_vars

----------------------------------------------------------------------------
\* ChatService.addReaction and AppGateway.handleSendReaction.

\* The identity a handler reads from client.data.user.sub.
SenderOf(r) == user[rx[r].client]

\* messageReaction.findUnique({ messageId_userId }): the record's id, or NoRecord.
findUniqueReaction(messageId, userId) ==
  IF \E x \in reactions : x.messageId = messageId /\ x.userId = userId
    THEN (CHOOSE x \in reactions : x.messageId = messageId /\ x.userId = userId).id
    ELSE NoRecord

\* The message_reaction payload built by handleSendReaction.
reactionPayload(r) ==
  [messageId |-> rx[r].messageId, userId |-> SenderOf(r),
   reaction |-> rx[r].reaction, id |-> rx[r].record]

\* reactionEmits without the emit to the sender.
reactionEmits_RecipientOnly(r) ==
  << [room |-> UserRoom(rx[r].recipientId), event |-> "message_reaction",
      payload |-> reactionPayload(r)] >>

\* The two emits of handleSendReaction: recipient first, then the sender.
reactionEmits(r) ==
  << [room |-> UserRoom(rx[r].recipientId), event |-> "message_reaction",
      payload |-> reactionPayload(r)],
     [room |-> UserRoom(SenderOf(r)), event |-> "message_reaction",
      payload |-> reactionPayload(r)] >>

\* A handler that catches the rejection and goes on to its emits.
onAddReactionRejected_Swallowed == "emit"

\* `await this.chatService.addReaction(...)` rejected: handleSendReaction has no
\* try/catch, so its own promise rejects; the position it ends at.
onAddReactionRejected == "error"

\* send_reaction arrives on connection c: handleSendReaction calls addReaction,
\* which suspends at messageReaction.findUnique. While data.user is unset, the
\* argument client.data.user.sub throws a TypeError before the call.
HandleSendReaction(r, c, messageId, recipientId, reaction) ==
  /\ rx[r].pc = "idle"
  /\ \A q \in Reqs : q < r => rx[q].pc # "idle"
  /\ open[c]
  /\ rx' = [rx EXCEPT ![r] = [NoRx EXCEPT
              !.pc = IF user[c] = None THEN "error" ELSE "find",
              !.client = c,
              !.messageId = messageId,
              !.recipientId = recipientId,
              !.reaction = reaction,
              !.calls = IF user[c] = None THEN 0 ELSE 1]]
  /\ UNCHANGED <<gatewayVars, extVars, messages, reactions, conversations, nextId, sm>>

\* findUnique resolves: `existing` decides between update and create.
ReactionFindResolved(r) ==
  /\ rx[r].pc = "find"
  /\ LET existing == findUniqueReaction(rx[r].messageId, SenderOf(r)) IN
       rx' = [rx EXCEPT ![r].existing = existing,
                        ![r].pc = IF existing # NoRecord THEN "update" ELSE "create"]
  /\ UNCHANGED <<gatewayVars, extVars, messages, reactions, conversations, nextId, sm>>

\* messageReaction.update({ where: { id: existing.id }, data: { reaction } }).
ReactionUpdateResolved(r) ==
  /\ rx[r].pc = "update"
  /\ \E x \in reactions : x.id = rx[r].existing
  /\ reactions' = {IF x.id = rx[r].existing
                     THEN [x EXCEPT !.reaction = rx[r].reaction] ELSE x
                   : x \in reactions}
  /\ rx' = [rx EXCEPT ![r].record = rx[r].existing, ![r].pc = "emit"]
  /\ UNCHANGED <<gatewayVars, extVars, messages, conversations, nextId, sm>>

\* messageReaction.create: needs the message to exist (foreign key) and no
\* record for (messageId, userId) (unique index).
ReactionCreateResolved(r) ==
  /\ rx[r].pc = "create"
  /\ \E m \in messages : m.id = rx[r].messageId
  /\ findUniqueReaction(rx[r].messageId, SenderOf(r)) = NoRecord
  /\ reactions' = reactions \cup
       {[id |-> nextId, messageId |-> rx[r].messageId,
         userId |-> SenderOf(r), reaction |-> rx[r].reaction]}
  /\ nextId' = nextId + 1
  /\ rx' = [rx EXCEPT ![r].record = nextId, ![r].pc = "emit"]
  /\ UNCHANGED <<gatewayVars, extVars, messages, conversations, sm>>

\* A persistence call of addReaction rejects (constraint violation, database
\* error): addReaction rejects and so does the await in handleSendReaction.
AddReactionRejected(r) ==
  /\ rx[r].pc \in {"find", "update", "create"}
  /\ rx' = [rx EXCEPT ![r].rejected = TRUE, ![r].pc = onAddReactionRejected,
                      ![r].calls = IF onAddReactionRejected = "find"
                                     THEN @ + 1 ELSE @]
  /\ UNCHANGED <<gatewayVars, extVars, messages, reactions, conversations, nextId, sm>>

\* handleSendReaction resumes with reactionRecord: the two emits.
EmitReaction(r) ==
  /\ rx[r].pc = "emit"
  /\ rx' = [rx EXCEPT ![r].out = reactionEmits(r), ![r].pc = "done"]
  /\ UNCHANGED <<gatewayVars, extVars, messages, reactions, conversations, nextId, sm>>

\* The state after c connected for its identity with nothing else in flight:
\* odd connections belong to u1, even ones to u2.
EstablishedUser(c) == IF c % 2 = 1 THEN "u1" ELSE "u2"
EstablishedToken(c) == IF c % 2 = 1 THEN "tok_u1" ELSE "tok_u2"

Established ==
  /\ cpc = [c \in Conns |-> "connected"]
  /\ dpc = [c \in Conns |-> "none"]
  /\ open = [c \in Conns |-> TRUE]
  /\ tok = [c \in Conns |-> EstablishedToken(c)]
  /\ user = [c \in Conns |-> verifyAsync(EstablishedToken(c))]
  /\ following = [c \in Conns |-> findManyFollowing(EstablishedUser(c))]
  /\ rooms = [c \in Conns |->
               {UserRoom(EstablishedUser(c))}
                 \cup followRooms(EstablishedUser(c),
                                  findManyFollowing(EstablishedUser(c)))]
  /\ isOnline = [u \in Users |-> \E c \in Conns : EstablishedUser(c) = u]
  /\ lastSeenAt = [u \in Users |-> 0]
  /\ presLog = [u \in Users |->
                 [i \in 1..Cardinality({c \in Conns : EstablishedUser(c) = u})
                    |-> TRUE]]
  /\ trans = [u \in Users |->
               [up |-> IF \E c \in Conns : EstablishedUser(c) = u THEN 1 ELSE 0,
                down |-> 0]]
  /\ hist = [u \in Users |-> "clean"]

InitEstablished ==
  /\ follows = {<<"u1", "u2", "ACCEPTED">>}
  /\ Established
  /\ ChatInit
  /\ ExtInit

NextReaction ==
  \/ \E r \in Reqs, c \in Conns, m \in MessageIds, u \in Users, e \in Emojis :
       HandleSendReaction(r, c, m, u, e)
  \/ \E r \in Reqs : ReactionFindResolved(r)
  \/ \E r \in Reqs : ReactionUpdateResolved(r)
  \/ \E r \in Reqs : ReactionCreateResolved(r)
  \/ \E r \in Reqs : AddReactionRejected(r)
  \/ \E r \in Reqs : EmitReaction(r)

SpecReaction == InitEstablished /\ [][NextReaction]_vars

----------------------------------------------------------------------------
\* ChatService.sendMessage.

Range(seq) == {seq[i] : i \in 1..Len(seq)}

\* conversation.findUnique({ where: { id }, include: { participants } }).
findUniqueConversation(id) ==
  IF \E cv \in conversations : cv.id = id
    THEN LET cv == CHOOSE x \in conversations : x.id = id
         IN [id |-> cv.id, participants |-> cv.participants]
    ELSE NoConv

\* The rows conversation.findFirst({ isGroup: false, participants: some sender
\* AND some recipient }) may return: with no orderBy, any matching one.
findFirstMatches(senderId, recipientId) ==
  {cv \in conversations :
     /\ ~cv.isGroup
     /\ senderId \in Range(cv.participants)
     /\ recipientId \in Range(cv.participants)}

\* `conversation.participants.some((p) => p.userId === senderId)`.
isParticipant(conversation, senderId) == senderId \in Range(conversation.participants)

\* The branch sendMessage takes on its arguments: the await it suspends at, or
\* "error" for the BadRequestException.
sendMessageEntry(conversationId, recipientId) ==
  IF conversationId # NoRecord THEN "findUnique"
  ELSE IF recipientId # None THEN "findFirst"
  ELSE "error"

\* receiveMessageEmits to the participants other than the sender.
receiveMessageEmits_SkipSender(q) ==
  SelectSeq([i \in 1..Len(sm[q].conversation.participants) |->
               [room |-> UserRoom(sm[q].conversation.participants[i]),
                event |-> "receiveMessage",
                payload |-> [id |-> sm[q].message,
                             conversationId |-> sm[q].conversation.id,
                             senderId |-> sm[q].senderId,
                             tempId |-> sm[q].tempId]]],
            LAMBDA e : e.room # UserRoom(sm[q].senderId))

\* The receiveMessage emits: one per participant row, to user:<p.userId>, each
\* carrying { ...message, tempId }.
receiveMessageEmits(q) ==
  [i \in 1..Len(sm[q].conversation.participants) |->
     [room |-> UserRoom(sm[q].conversation.participants[i]),
      event |-> "receiveMessage",
      payload |-> [id |-> sm[q].message,
                   conversationId |-> sm[q].conversation.id,
                   senderId |-> sm[q].senderId,
                   tempId |-> sm[q].tempId]]]

\* POST /chat/messages: sendMessage(senderId, recipientId, ..., conversationId, tempId).
SendMessage(q, senderId, recipientId, conversationId, tempId) ==
  /\ sm[q].pc = "idle"
  /\ \A k \in Reqs : k < q => sm[k].pc # "idle"
  /\ sm' = [sm EXCEPT ![q] = [NoSm EXCEPT
              !.pc = sendMessageEntry(conversationId, recipientId),
              !.senderId = senderId, !.recipientId = recipientId,
              !.conversationId = conversationId, !.tempId = tempId]]
  /\ UNCHANGED <<gatewayVars, extVars, messages, reactions, conversations, nextId, rx>>

\* conversation.findUnique resolves: NotFoundException, ForbiddenException, or
\* on to message.create.
ConversationFindUniqueResolved(q) ==
  /\ sm[q].pc = "findUnique"
  /\ LET conversation == findUniqueConversation(sm[q].conversationId) IN
       sm' = [sm EXCEPT
                ![q].conversation = conversation,
                ![q].pc = IF conversation = NoConv THEN "error"
                          ELSE IF ~isParticipant(conversation, sm[q].senderId)
                                 THEN "error"
                          ELSE "createMessage"]
  /\ UNCHANGED <<gatewayVars, extVars, messages, reactions, conversations, nextId, rx>>

\* conversation.findFirst resolves with an existing 1-on-1 conversation.
ConversationFindFirstFound(q) ==
  /\ sm[q].pc = "findFirst"
  /\ \E cv \in findFirstMatches(sm[q].senderId, sm[q].recipientId) :
       sm' = [sm EXCEPT
                ![q].conversation = [id |-> cv.id, participants |-> cv.participants],
                ![q].pc = "createMessage"]
  /\ UNCHANGED <<gatewayVars, extVars, messages, reactions, conversations, nextId, rx>>

\* conversation.findFirst resolves with null: on to conversation.create.
ConversationFindFirstNull(q) ==
  /\ sm[q].pc = "findFirst"
  /\ findFirstMatches(sm[q].senderId, sm[q].recipientId) = {}
  /\ sm' = [sm EXCEPT ![q].pc = "createConversation"]
  /\ UNCHANGED <<gatewayVars, extVars, messages, reactions, conversations, nextId, rx>>

\* conversation.create({ isGroup: false, participants: [sender, recipient] }).
ConversationCreateResolved(q) ==
  /\ sm[q].pc = "createConversation"
  /\ LET rows == <<sm[q].senderId, sm[q].recipientId>> IN
       /\ conversations' = conversations \cup
            {[id |-> nextId, isGroup |-> FALSE, participants |-> rows]}
       /\ sm' = [sm EXCEPT ![q].conversation = [id |-> nextId, participants |-> rows],
                           ![q].pc = "createMessage"]
  /\ nextId' = nextId + 1
  /\ UNCHANGED <<gatewayVars, extVars, messages, reactions, rx>>

\* message.create: needs the conversation to exist (foreign key).
MessageCreateResolved(q) ==
  /\ sm[q].pc = "createMessage"
  /\ \E cv \in conversations : cv.id = sm[q].conversation.id
  /\ messages' = messages \cup
       {[id |-> nextId, conversationId |-> sm[q].conversation.id,
         senderId |-> sm[q].senderId]}
  /\ nextId' = nextId + 1
  /\ sm' = [sm EXCEPT ![q].message = nextId, ![q].pc = "emit"]
  /\ UNCHANGED <<gatewayVars, extVars, reactions, conversations, rx>>

\* A persistence call of sendMessage rejects: sendMessage rejects.
SendMessageRejected(q) ==
  /\ sm[q].pc \in {"findUnique", "findFirst", "createConversation", "createMessage"}
  /\ sm' = [sm EXCEPT ![q].rejected = TRUE, ![q].pc = "error"]
  /\ UNCHANGED <<gatewayVars, extVars, messages, reactions, conversations, nextId, rx>>

\* sendMessage resumes with the created message: participants.forEach(emit).
EmitReceiveMessage(q) ==
  /\ sm[q].pc = "emit"
  /\ sm' = [sm EXCEPT ![q].out = receiveMessageEmits(q), ![q].pc = "done"]
  /\ UNCHANGED <<gatewayVars, extVars, messages, reactions, conversations, nextId, rx>>

NextMessage ==
  \/ \E q \in Reqs, s \in Senders, u \in RecipientIds,
        cv \in ConversationIds \cup {NoRecord}, t \in TempIds :
       SendMessage(q, s, u, cv, t)
  \/ \E q \in Reqs : ConversationFindUniqueResolved(q)
  \/ \E q \in Reqs : ConversationFindFirstFound(q)
  \/ \E q \in Reqs : ConversationFindFirstNull(q)
  \/ \E q \in Reqs : ConversationCreateResolved(q)
  \/ \E q \in Reqs : MessageCreateResolved(q)
  \/ \E q \in Reqs : SendMessageRejected(q)
  \/ \E q \in Reqs : EmitReceiveMessage(q)

SpecMessage == Init /\ [][NextMessage]_vars

----------------------------------------------------------------------------
\* AppGateway.handleMarkRead and ChatService.markAsRead.

\* The messages_read emit of handleMarkRead.
markReadEmits(c, conversationId, recipientId) ==
  << [room |-> UserRoom(recipientId), event |-> "messages_read",
      payload |-> [conversationId |-> conversationId, userId |-> user[c]]] >>

\* The number of ChatService.markAsRead calls handleMarkRead makes.
markReadPersistenceCalls == 0

\* mark_read arrives on connection c: handleMarkRead is synchronous, it emits
\* messages_read to user:<recipientId> and returns. While data.user is unset,
\* the payload's client.data.user.sub throws a TypeError before the emit.
HandleMarkRead(r, c, conversationId, recipientId) ==
  /\ mr[r].pc = "idle"
  /\ \A q \in Reqs : q < r => mr[q].pc # "idle"
  /\ open[c]
  /\ mr' = [mr EXCEPT ![r] =
              [pc |-> IF user[c] = None THEN "error" ELSE "done",
               client |-> c, conversationId |-> conversationId,
               recipientId |-> recipientId, calls |-> markReadPersistenceCalls,
               out |-> IF user[c] = None THEN <<>>
                       ELSE markReadEmits(c, conversationId, recipientId)]]
  /\ UNCHANGED <<exceptMarkRead, lastReadAt, ra>>

\* PUT /chat/conversations/:id/read: markAsRead suspends at participant.updateMany.
MarkAsRead(q, conversationId, userId) ==
  /\ ra[q].pc = "idle"
  /\ \A k \in Reqs : k < q => ra[k].pc # "idle"
  /\ ra' = [ra EXCEPT ![q] = [NoRa EXCEPT !.pc = "updateMany",
                                !.conversationId = conversationId,
                                !.userId = userId]]
  /\ UNCHANGED <<exceptMarkRead, lastReadAt, mr>>

\* participant.updateMany({ where: { conversationId, userId } }) resolves: the
\* matching rows (possibly none) get lastReadAt.
MarkAsReadResolved(q) ==
  /\ ra[q].pc = "updateMany"
  /\ lastReadAt' = lastReadAt \cup
       {<<cv.id, ra[q].userId>> : cv \in
          {x \in conversations : /\ x.id = ra[q].conversationId
                                 /\ ra[q].userId \in Range(x.participants)}}
  /\ ra' = [ra EXCEPT ![q].pc = "done"]
  /\ UNCHANGED <<exceptMarkRead, mr>>

\* participant.updateMany rejects: markAsRead rejects.
MarkAsReadRejected(q) ==
  /\ ra[q].pc = "updateMany"
  /\ ra' = [ra EXCEPT ![q].pc = "error", ![q].rejected = TRUE]
  /\ UNCHANGED <<exceptMarkRead, lastReadAt, mr>>

NextMarkRead ==
  \/ \E r \in Reqs, c \in Conns, cv \in ConversationIds, u \in {"u1", "u2"} :
       HandleMarkRead(r, c, cv, u)
  \/ \E q \in Reqs, cv \in ConversationIds, u \in {"u1", "u2"} : MarkAsRead(q, cv, u)
  \/ \E q \in Reqs : MarkAsReadResolved(q)
  \/ \E q \in Reqs : MarkAsReadRejected(q)

SpecMarkRead == InitEstablished /\ [][NextMarkRead]_vars

----------------------------------------------------------------------------
\* NotificationsService.create and AppGateway.sendNotification.

\* Users with a row in the users table (recipientId and senderId of a
\* notification are foreign keys into it).
ExistingUsers == {"u1", "u2"}

\* An emit that goes by the registered membership alone, closed sockets included.
deliverLocal_ByMembership(room) == {c \in Conns : room \in rooms[c]}

\* server.to(room).emit(...): the connections the event is sent to are the
\* connected sockets that are members of the room when emit is called.
deliverLocal(room) == {c \in Conns : open[c] /\ room \in rooms[c]}

\* sendNotification that also emits to the presence room of the user.
sendNotification_AlsoPresence(userId, notification) ==
  << [room |-> UserRoom(userId), event |-> "notification", payload |-> notification],
     [room |-> PresenceRoom(userId), event |-> "notification",
      payload |-> notification] >>

\* sendNotification(userId, notification): one emit to user:<userId>.
sendNotification(userId, notification) ==
  << [room |-> UserRoom(userId), event |-> "notification", payload |-> notification] >>

\* NotificationsService.create(data): suspends at prisma.notification.create.
CreateNotification(q, recipientId, senderId) ==
  /\ nt[q].pc = "idle"
  /\ \A k \in Reqs : k < q => nt[k].pc # "idle"
  /\ nt' = [nt EXCEPT ![q] = [NoNt EXCEPT !.pc = "create",
                                !.recipientId = recipientId,
                                !.senderId = senderId]]
  /\ UNCHANGED <<exceptNotify, nextId, notifications, inbox>>

\* prisma.notification.create resolves: the record exists.
NotificationCreateResolved(q) ==
  /\ nt[q].pc = "create"
  /\ nt[q].recipientId \in ExistingUsers
  /\ notifications' = notifications \cup
       {[id |-> nextId, recipientId |-> nt[q].recipientId,
         senderId |-> nt[q].senderId]}
  /\ nextId' = nextId + 1
  /\ nt' = [nt EXCEPT ![q].notification = nextId, ![q].pc = "emit"]
  /\ UNCHANGED <<exceptNotify, inbox>>

\* prisma.notification.create rejects (unknown recipient, database error):
\* create rejects before sendNotification.
NotificationCreateRejected(q) ==
  /\ nt[q].pc = "create"
  /\ nt' = [nt EXCEPT ![q].rejected = TRUE, ![q].pc = "error"]
  /\ UNCHANGED <<exceptNotify, nextId, notifications, inbox>>

\* create resumes: appGateway.sendNotification(data.recipientId, notification);
\* the event goes out to the members of the room at this moment.
EmitNotification(q) ==
  /\ nt[q].pc = "emit"
  /\ LET out == sendNotification(nt[q].recipientId, nt[q].notification) IN
       /\ nt' = [nt EXCEPT ![q].out = out, ![q].pc = "done"]
       /\ inbox' = [c \in Conns |->
                      IF \E i \in 1..Len(out) : c \in deliverLocal(out[i].room)
                        THEN Append(inbox[c], nt[q].notification)
                        ELSE inbox[c]]
  /\ UNCHANGED <<exceptNotify, nextId, notifications>>

\* Handshakes that carry a valid access_token cookie.
CookieHandshakes == {h \in Handshakes : verifyAsync(extractToken(h)) # Reject
                                        /\ h.scheme = None}

NextNotify ==
  \/ \E q \in Reqs, u \in Users, s \in ExistingUsers : CreateNotification(q, u, s)
  \/ \E q \in Reqs : NotificationCreateResolved(q)
  \/ \E q \in Reqs : NotificationCreateRejected(q)
  \/ \E q \in Reqs : EmitNotification(q)

SpecNotify == InitEstablished /\ [][NextNotify]_vars

\* Notifications for u1 published while connections come and go.
NextDeliver ==
  \/ \E q \in Reqs : CreateNotification(q, "u1", "u2")
  \/ \E q \in Reqs : NotificationCreateResolved(q)
  \/ \E q \in Reqs : EmitNotification(q)
  \/ \E c \in Conns, h \in CookieHandshakes : HandleConnection(c, h)
  \/ \E c \in Conns : VerifyResolved(c)
  \/ \E c \in Conns : FollowsResolved(c)
  \/ \E c \in Conns : OnlineUpdateResolved(c)
  \/ \E c \in Conns : EmitOnline(c)
  \/ \E c \in Conns : TransportClose(c)
  \/ \E c \in Conns : OfflineUpdateResolved(c)
  \/ \E c \in Conns : EmitOffline(c)

SpecDeliver == Init /\ [][NextDeliver]_vars

----------------------------------------------------------------------------
\* FollowsService.toggle.

\* Usernames a client may name: those of the existing users, and one nobody has.
Usernames == ExistingUsers \cup {"ghost"}

\* prisma.profile.findUnique({ where: { username } }): the profile's userId, or
\* None (a user's username is written like its id).
profileUserId(username) == IF username \in ExistingUsers THEN username ELSE None

\* Profiles with isPrivate set.
PrivateProfiles == {"u1"}

\* blocks table: set of <<blockerId, blockedId>>.
Blocks == {}

\* The position toggle reaches once the profile lookup returned: NotFound,
\* BadRequest (following oneself), or on to the block lookup.
toggleAfterProfile(followingId, followerId) ==
  IF followingId = None THEN "error"
  ELSE IF followerId = followingId THEN "error"
  ELSE "findBlock"

\* What toggle does to the sockets of the follower once the follow is deleted:
\* the rooms its connections are made to leave.
unfollowLeaves(followerId, followingId) == {}

\* POST follow toggle: toggle(followingUsername, followerId) suspends at
\* profile.findUnique.
Toggle(q, followingUsername, followerId) ==
  /\ tg[q].pc = "idle"
  /\ \A k \in Reqs : k < q => tg[k].pc # "idle"
  /\ tg' = [tg EXCEPT ![q] = [NoTg EXCEPT !.pc = "findProfile",
                                !.followingUsername = followingUsername,
                                !.followerId = followerId]]
  /\ UNCHANGED <<exceptToggle, follows, nextId, notifications, inbox>>

\* profile.findUnique resolves.
ProfileFindResolved(q) ==
  /\ tg[q].pc = "findProfile"
  /\ LET followingId == profileUserId(tg[q].followingUsername) IN
       tg' = [tg EXCEPT ![q].followingId = followingId,
                        ![q].pc = toggleAfterProfile(followingId, tg[q].followerId)]
  /\ UNCHANGED <<exceptToggle, follows, nextId, notifications, inbox>>

\* block.findUnique resolves: NotFound when the target blocked the follower.
BlockFindResolved(q) ==
  /\ tg[q].pc = "findBlock"
  /\ tg' = [tg EXCEPT ![q].pc = IF <<tg[q].followingId, tg[q].followerId>> \in Blocks
                                  THEN "error" ELSE "findFollow"]
  /\ UNCHANGED <<exceptToggle, follows, nextId, notifications, inbox>>

\* follow.findUnique resolves: `existingFollow` decides between delete and create.
FollowFindResolved(q) ==
  /\ tg[q].pc = "findFollow"
  /\ tg' = [tg EXCEPT ![q].pc = IF followRows(tg[q].followerId, tg[q].followingId) # {}
                                  THEN "delete" ELSE "create"]
  /\ UNCHANGED <<exceptToggle, follows, nextId, notifications, inbox>>

\* follow.delete({ where: { id } }) resolves (the row must still exist); toggle
\* returns { following: false, status: 'NONE' }.
FollowDeleteResolved(q) ==
  /\ tg[q].pc = "delete"
  /\ followRows(tg[q].followerId, tg[q].followingId) # {}
  /\ follows' = follows \ followRows(tg[q].followerId, tg[q].followingId)
  /\ rooms' = [c \in Conns |->
                 IF user[c] = tg[q].followerId
                   THEN rooms[c] \ unfollowLeaves(tg[q].followerId, tg[q].followingId)
                   ELSE rooms[c]]
  /\ tg' = [tg EXCEPT ![q].pc = "done", ![q].status = "NONE",
                      ![q].result = "unfollowed"]
  /\ UNCHANGED <<cpc, dpc, open, tok, user, following, isOnline, lastSeenAt, presLog,
                 trans, hist>>
  /\ UNCHANGED <<messages, reactions, conversations, rx, sm, markReadVars, nt>>
  /\ UNCHANGED <<nextId, notifications, inbox, serviceVars>>

\* follow.create resolves (no row for the pair may exist): status PENDING for a
\* private profile, else ACCEPTED; on to notificationsService.create.
FollowCreateResolved(q) ==
  /\ tg[q].pc = "create"
  /\ followRows(tg[q].followerId, tg[q].followingId) = {}
  /\ LET status == IF tg[q].followingId \in PrivateProfiles
                      THEN "PENDING" ELSE "ACCEPTED" IN
       /\ follows' = follows \cup {<<tg[q].followerId, tg[q].followingId, status>>}
       /\ tg' = [tg EXCEPT ![q].pc = "notify", ![q].status = status]
  /\ UNCHANGED <<exceptToggle, nextId, notifications, inbox>>

\* notificationsService.create inside toggle: prisma.notification.create resolves.
ToggleNotificationCreated(q) ==
  /\ tg[q].pc = "notify"
  /\ notifications' = notifications \cup
       {[id |-> nextId, recipientId |-> tg[q].followingId,
         senderId |-> tg[q].followerId]}
  /\ nextId' = nextId + 1
  /\ tg' = [tg EXCEPT ![q].notification = nextId, ![q].pc = "notifyEmit"]
  /\ UNCHANGED <<exceptToggle, follows, inbox>>

\* notificationsService.create resumes: sendNotification; toggle returns
\* { following: status === 'ACCEPTED', status }.
ToggleNotificationEmit(q) ==
  /\ tg[q].pc = "notifyEmit"
  /\ LET out == sendNotification(tg[q].followingId, tg[q].notification) IN
       inbox' = [c \in Conns |->
                   IF \E i \in 1..Len(out) : c \in deliverLocal(out[i].room)
                     THEN Append(inbox[c], tg[q].notification)
                     ELSE inbox[c]]
  /\ tg' = [tg EXCEPT ![q].pc = "done",
                      ![q].result = IF tg[q].status = "ACCEPTED"
                                      THEN "following" ELSE "requested"]
  /\ UNCHANGED <<exceptToggle, follows, nextId, notifications>>

\* A persistence call of toggle rejects: toggle rejects.
ToggleRejected(q) ==
  /\ tg[q].pc \in {"findProfile", "findBlock", "findFollow", "delete", "create", "notify"}
  /\ tg' = [tg EXCEPT ![q].rejected = TRUE, ![q].pc = "error"]
  /\ UNCHANGED <<exceptToggle, follows, nextId, notifications, inbox>>

NextFollow ==
  \/ \E q \in Reqs, n \in Usernames, u \in ExistingUsers : Toggle(q, n, u)
  \/ \E q \in Reqs : ProfileFindResolved(q)
  \/ \E q \in Reqs : BlockFindResolved(q)
  \/ \E q \in Reqs : FollowFindResolved(q)
  \/ \E q \in Reqs : FollowDeleteResolved(q)
  \/ \E q \in Reqs : FollowCreateResolved(q)
  \/ \E q \in Reqs : ToggleNotificationCreated(q)
  \/ \E q \in Reqs : ToggleNotificationEmit(q)
  \/ \E q \in Reqs : ToggleRejected(q)

SpecFollow == InitEstablished /\ [][NextFollow]_vars

----------------------------------------------------------------------------
\* AppGateway.handleTypingStart and AppGateway.handleTypingStop.

\* The number of persistence calls the typing handlers make.
typingPersistenceCalls == 0

\* typingStartEmits with a second emit to the sender's own room.
typingStartEmits_ToSenderToo(c, conversationId, recipientId) ==
  << [room |-> UserRoom(recipientId), event |-> "user_typing",
      payload |-> [userId |-> user[c], conversationId |-> conversationId]],
     [room |-> UserRoom(user[c]), event |-> "user_typing",
      payload |-> [userId |-> user[c], conversationId |-> conversationId]] >>

\* The user_typing emit of handleTypingStart.
typingStartEmits(c, conversationId, recipientId) ==
  << [room |-> UserRoom(recipientId), event |-> "user_typing",
      payload |-> [userId |-> user[c], conversationId |-> conversationId]] >>

\* The user_stopped_typing emit of handleTypingStop: the handler takes the
\* message body only, the payload carries no userId.
typingStopEmits(conversationId, recipientId) ==
  << [room |-> UserRoom(recipientId), event |-> "user_stopped_typing",
      payload |-> [conversationId |-> conversationId]] >>

\* typing_start arrives on connection c (message handlers are bound when the
\* socket connects, next to handleConnection). The handler is synchronous; the
\* payload reads client.data.user.sub, which throws a TypeError before the emit
\* while data.user is unset.
HandleTypingStart(r, c, conversationId, recipientId) ==
  /\ ty[r].pc = "idle"
  /\ \A q \in Reqs : q < r => ty[q].pc # "idle"
  /\ open[c]
  /\ ty' = [ty EXCEPT ![r] =
              [NoTy EXCEPT !.pc = IF user[c] = None THEN "error" ELSE "done",
                           !.event = "typing_start", !.client = c,
                           !.sender = user[c],
                           !.conversationId = conversationId,
                           !.recipientId = recipientId,
                           !.calls = typingPersistenceCalls,
                           !.out = IF user[c] = None THEN <<>>
                                   ELSE typingStartEmits(c, conversationId,
                                                         recipientId)]]
  /\ UNCHANGED <<gatewayVars, chatVars, routeVars, dc, cg>>

\* typing_stop arrives on connection c: the handler does not read the client,
\* it emits and returns.
HandleTypingStop(r, c, conversationId, recipientId) ==
  /\ ty[r].pc = "idle"
  /\ \A q \in Reqs : q < r => ty[q].pc # "idle"
  /\ open[c]
  /\ ty' = [ty EXCEPT ![r] =
              [NoTy EXCEPT !.pc = "done", !.event = "typing_stop", !.client = c,
                           !.sender = user[c],
                           !.conversationId = conversationId,
                           !.recipientId = recipientId,
                           !.calls = typingPersistenceCalls,
                           !.out = typingStopEmits(conversationId, recipientId)]]
  /\ UNCHANGED <<gatewayVars, chatVars, routeVars, dc, cg>>

\* Typing events of connected users, next to read markers being persisted.
NextTyping ==
  \/ \E r \in Reqs, c \in Conns, cv \in ConversationIds, u \in {"u2", "u3"} :
       HandleTypingStart(r, c, cv, u)
  \/ \E r \in Reqs, c \in Conns, cv \in ConversationIds, u \in {"u2", "u3"} :
       HandleTypingStop(r, c, cv, u)
  \/ \E q \in Reqs : MarkAsRead(q, 1, "u1")
  \/ \E q \in Reqs : MarkAsReadResolved(q)

SpecTyping == InitEstablished /\ [][NextTyping]_vars

----------------------------------------------------------------------------
\* Inbound events on connections that are still being accepted.

\* Handshakes with an access_token cookie that verifies as u1, or that
\* verification rejects.
InboundHandshakes ==
  {h \in Handshakes : h.cookie \in {"tok_u1", "bad"}}

\* Inbound events received so far.
InboundCount ==
  Cardinality({r \in Reqs : ty[r].pc # "idle"})
    + Cardinality({r \in Reqs : rx[r].pc # "idle"})
    + Cardinality({r \in Reqs : mr[r].pc # "idle"})

\* Up to MaxReqs inbound events about conversation 1 and its message, towards
\* u2, on connections in any state of their handleConnection.
NextInbound ==
  \/ \E c \in Conns, h \in InboundHandshakes : HandleConnection(c, h)
  \/ \E c \in Conns : VerifyResolved(c)
  \/ \E c \in Conns : VerifyRejected(c)
  \/ \E c \in Conns : FollowsResolved(c)
  \/ \E c \in Conns : OnlineUpdateResolved(c)
  \/ \E c \in Conns : EmitOnline(c)
  \/ \E r \in Reqs, c \in Conns :
       InboundCount < MaxReqs /\ HandleTypingStart(r, c, 1, "u2")
  \/ \E r \in Reqs, c \in Conns :
       InboundCount < MaxReqs /\ HandleTypingStop(r, c, 1, "u2")
  \/ \E r \in Reqs, c \in Conns :
       InboundCount < MaxReqs /\ HandleMarkRead(r, c, 1, "u2")
  \/ \E r \in Reqs, c \in Conns :
       InboundCount < MaxReqs /\ HandleSendReaction(r, c, 1, "u2", "like")
  \/ \E r \in Reqs : ReactionFindResolved(r)
  \/ \E r \in Reqs : ReactionUpdateResolved(r)
  \/ \E r \in Reqs : ReactionCreateResolved(r)
  \/ \E r \in Reqs : EmitReaction(r)

SpecInbound == Init /\ [][NextInbound]_vars

----------------------------------------------------------------------------
\* Follow requests towards a private profile, and connections of the requester.

\* u2 toggles its follow of u1 (a private profile) while its sockets connect.
NextPending ==
  \/ \E q \in Reqs : Toggle(q, "u1", "u2")
  \/ \E q \in Reqs : ProfileFindResolved(q)
  \/ \E q \in Reqs : BlockFindResolved(q)
  \/ \E q \in Reqs : FollowFindResolved(q)
  \/ \E q \in Reqs : FollowDeleteResolved(q)
  \/ \E q \in Reqs : FollowCreateResolved(q)
  \/ \E q \in Reqs : ToggleNotificationCreated(q)
  \/ \E q \in Reqs : ToggleNotificationEmit(q)
  \/ \E c \in Conns, h \in CookieHandshakes : HandleConnection(c, h)
  \/ \E c \in Conns : VerifyResolved(c)
  \/ \E c \in Conns : FollowsResolved(c)
  \/ \E c \in Conns : OnlineUpdateResolved(c)
  \/ \E c \in Conns : EmitOnline(c)

SpecPending == Init /\ [][NextPending]_vars

----------------------------------------------------------------------------
\* ChatService.deleteConversation.

\* prisma.participant.findFirst({ where: { conversationId, userId } }) returns a row.
findFirstParticipant(conversationId, userId) ==
  \E cv \in conversations : cv.id = conversationId /\ userId \in Range(cv.participants)

\* The conversationDeleted emits: one per participant row, to user:<p.userId>;
\* none when the lookup returned null.
conversationDeletedEmits(conversation) ==
  [i \in 1..Len(conversation.participants) |->
     [room |-> UserRoom(conversation.participants[i]),
      event |-> "conversationDeleted",
      payload |-> [conversationId |-> conversation.id]]]

\* DELETE /chat/conversations/:id: deleteConversation(conversationId, userId)
\* suspends at participant.findFirst.
DeleteConversation(q, conversationId, userId) ==
  /\ dc[q].pc = "idle"
  /\ \A k \in Reqs : k < q => dc[k].pc # "idle"
  /\ dc' = [dc EXCEPT ![q] = [NoDc EXCEPT !.pc = "findParticipant",
                                !.conversationId = conversationId,
                                !.userId = userId]]
  /\ UNCHANGED <<gatewayVars, chatVars, routeVars, ty, cg>>

\* participant.findFirst resolves: ForbiddenException, or on to
\* conversation.findUnique.
ParticipantFindResolved(q) ==
  /\ dc[q].pc = "findParticipant"
  /\ dc' = [dc EXCEPT ![q].pc =
              IF findFirstParticipant(dc[q].conversationId, dc[q].userId)
                THEN "findUnique" ELSE "error"]
  /\ UNCHANGED <<gatewayVars, chatVars, routeVars, ty, cg>>

\* conversation.findUnique resolves: the emits to the participants (when the
\* conversation was found), then conversation.delete is issued.
DeleteFindUniqueResolved(q) ==
  /\ dc[q].pc = "findUnique"
  /\ LET conversation == findUniqueConversation(dc[q].conversationId) IN
       dc' = [dc EXCEPT ![q].conversation = conversation,
                        ![q].out = conversationDeletedEmits(conversation),
                        ![q].pc = "delete"]
  /\ UNCHANGED <<gatewayVars, chatVars, routeVars, ty, cg>>

\* conversation.delete resolves (the record must exist); the delete cascades to
\* the participant rows and the messages with their reactions.
ConversationDeleteResolved(q) ==
  /\ dc[q].pc = "delete"
  /\ \E cv \in conversations : cv.id = dc[q].conversationId
  /\ conversations' = {cv \in conversations : cv.id # dc[q].conversationId}
  /\ messages' = {m \in messages : m.conversationId # dc[q].conversationId}
  /\ reactions' = {x \in reactions :
                     \E m \in messages : /\ m.id = x.messageId
                                         /\ m.conversationId # dc[q].conversationId}
  /\ lastReadAt' = {x \in lastReadAt : x[1] # dc[q].conversationId}
  /\ dc' = [dc EXCEPT ![q].pc = "done"]
  /\ UNCHANGED <<gatewayVars, nextId, rx, sm, mr, ra, notifyVars, toggleVars, ty, cg>>

\* A persistence call of deleteConversation rejects (database error, or the
\* record to delete no longer exists): deleteConversation rejects.
DeleteConversationRejected(q) ==
  /\ dc[q].pc \in {"findParticipant", "findUnique", "delete"}
  /\ dc' = [dc EXCEPT ![q].rejected = TRUE, ![q].pc = "error"]
  /\ UNCHANGED <<gatewayVars, chatVars, routeVars, ty, cg>>

NextDelete ==
  \/ \E q \in Reqs, cv \in ConversationIds, u \in Users : DeleteConversation(q, cv, u)
  \/ \E q \in Reqs : ParticipantFindResolved(q)
  \/ \E q \in Reqs : DeleteFindUniqueResolved(q)
  \/ \E q \in Reqs : ConversationDeleteResolved(q)
  \/ \E q \in Reqs : DeleteConversationRejected(q)

SpecDelete == InitEstablished /\ [][NextDelete]_vars

----------------------------------------------------------------------------
\* ChatService.createGroup.

\* Array.from(new Set(seq)): the first occurrence of every element, in order.
RECURSIVE ArrayFromSet(_)
ArrayFromSet(seq) ==
  IF seq = <<>> THEN <<>>
  ELSE LET rest == ArrayFromSet(SubSeq(seq, 1, Len(seq) - 1))
           last == seq[Len(seq)]
       IN IF last \in Range(rest) THEN rest ELSE Append(rest, last)

\* `Array.from(new Set(participantIds.filter((id) => id !== userId)))`.
uniqueParticipantIds(userId, participantIds) ==
  ArrayFromSet(SelectSeq(participantIds, LAMBDA id : id # userId))

\* `Array.from(new Set([userId, ...uniqueParticipantIds]))`.
allParticipantIds(userId, unique) == ArrayFromSet(<<userId>> \o unique)

\* The branch createGroup takes on its arguments: BadRequestException, the
\* 1-on-1 lookup (one other participant and no name), or the group creation.
createGroupEntry(unique, name) ==
  IF Len(unique) = 0 THEN "error"
  ELSE IF Len(unique) = 1 /\ name = None THEN "findFirst"
  ELSE "createGroup"

\* Bodies of POST /chat/conversations: participantIds and name.
ParticipantIdLists == {<<"u1">>, <<"u3">>, <<"u3", "u3">>, <<"u2", "u3">>}
GroupNames == {None, "team"}

\* POST /chat/conversations: createGroup(userId, participantIds, name).
CreateGroup(q, userId, participantIds, name) ==
  /\ cg[q].pc = "idle"
  /\ \A k \in Reqs : k < q => cg[k].pc # "idle"
  /\ LET unique == uniqueParticipantIds(userId, participantIds) IN
       cg' = [cg EXCEPT ![q] = [NoCg EXCEPT
                !.pc = createGroupEntry(unique, name),
                !.userId = userId, !.participantIds = participantIds,
                !.name = name, !.uniqueParticipantIds = unique]]
  /\ UNCHANGED <<gatewayVars, chatVars, routeVars, ty, dc>>

\* conversation.findFirst resolves with an existing 1-on-1: createGroup returns it.
GroupFindFirstFound(q) ==
  /\ cg[q].pc = "findFirst"
  /\ \E cv \in findFirstMatches(cg[q].userId, cg[q].uniqueParticipantIds[1]) :
       cg' = [cg EXCEPT ![q].result = cv.id, ![q].pc = "done"]
  /\ UNCHANGED <<gatewayVars, chatVars, routeVars, ty, dc>>

\* conversation.findFirst resolves with null: on to conversation.create.
GroupFindFirstNull(q) ==
  /\ cg[q].pc = "findFirst"
  /\ findFirstMatches(cg[q].userId, cg[q].uniqueParticipantIds[1]) = {}
  /\ cg' = [cg EXCEPT ![q].pc = "createDirect"]
  /\ UNCHANGED <<gatewayVars, chatVars, routeVars, ty, dc>>

\* conversation.create({ isGroup: false, participants: [userId, recipientId] }).
GroupDirectCreateResolved(q) ==
  /\ cg[q].pc = "createDirect"
  /\ conversations' = conversations \cup
       {[id |-> nextId, isGroup |-> FALSE,
         participants |-> <<cg[q].userId, cg[q].uniqueParticipantIds[1]>>]}
  /\ nextId' = nextId + 1
  /\ cg' = [cg EXCEPT ![q].result = nextId, ![q].pc = "done"]
  /\ UNCHANGED <<gatewayVars, messages, reactions, rx, sm, routeVars, ty, dc>>

\* conversation.create({ isGroup: true, name, participants: allParticipantIds }).
GroupCreateResolved(q) ==
  /\ cg[q].pc = "createGroup"
  /\ conversations' = conversations \cup
       {[id |-> nextId, isGroup |-> TRUE,
         participants |-> allParticipantIds(cg[q].userId,
                                            cg[q].uniqueParticipantIds)]}
  /\ nextId' = nextId + 1
  /\ cg' = [cg EXCEPT ![q].result = nextId, ![q].pc = "done"]
  /\ UNCHANGED <<gatewayVars, messages, reactions, rx, sm, routeVars, ty, dc>>

\* A persistence call of createGroup rejects: createGroup rejects.
CreateGroupRejected(q) ==
  /\ cg[q].pc \in {"findFirst", "createDirect", "createGroup"}
  /\ cg' = [cg EXCEPT ![q].rejected = TRUE, ![q].pc = "error"]
  /\ UNCHANGED <<gatewayVars, chatVars, routeVars, ty, dc>>

\* sendMessage and createGroup calls made so far.
DirectCalls ==
  Cardinality({q \in Reqs : sm[q].pc # "idle"})
    + Cardinality({q \in Reqs : cg[q].pc # "idle"})

\* u1 and u3 start conversations with each other through up to MaxReqs
\* sendMessage (without conversationId) and createGroup calls.
NextDirect ==
  \/ \E q \in Reqs, s \in Senders, u \in Senders, t \in TempIds :
       DirectCalls < MaxReqs /\ s # u /\ SendMessage(q, s, u, NoRecord, t)
  \/ \E q \in Reqs : ConversationFindFirstFound(q)
  \/ \E q \in Reqs : ConversationFindFirstNull(q)
  \/ \E q \in Reqs : ConversationCreateResolved(q)
  \/ \E q \in Reqs : MessageCreateResolved(q)
  \/ \E q \in Reqs : EmitReceiveMessage(q)
  \/ \E q \in Reqs, u \in Senders, p \in ParticipantIdLists, n \in GroupNames :
       DirectCalls < MaxReqs /\ CreateGroup(q, u, p, n)
  \/ \E q \in Reqs : GroupFindFirstFound(q)
  \/ \E q \in Reqs : GroupFindFirstNull(q)
  \/ \E q \in Reqs : GroupDirectCreateResolved(q)
  \/ \E q \in Reqs : GroupCreateResolved(q)
  \/ \E q \in Reqs : CreateGroupRejected(q)

SpecDirect == Init /\ [][NextDirect]_vars

----------------------------------------------------------------------------
\* Helpers of the properties.
RECURSIVE CountOf(_, _)
CountOf(seq, v) ==
  IF seq = <<>> THEN 0
  ELSE (IF Head(seq) = v THEN 1 ELSE 0) + CountOf(Tail(seq), v)

\* Connections opened for identity u: authenticated as u, or carrying u's token.
ConnsOf(u) == {c \in Conns : cpc[c] # "idle" /\ (user[c] = u \/ verifyAsync(tok[c]) = u)}

\* No connect or disconnect handler is in progress for identity u.
Quiescent(u) ==
  \A c \in ConnsOf(u) : cpc[c] \notin Accepting /\ dpc[c] \notin {"update", "emit"}

\* Every connect of u succeeded, every transport of u closed only after its
\* handleConnection had completed, and no persistence call of u's handlers failed.
CleanHistory(u) ==
  /\ hist[u] # "dirty"
  /\ \A c \in ConnsOf(u) : cpc[c] # "failed"

\* The handshake of c carried no token, or one that verification rejects.
Unauthenticated(c) ==
  cpc[c] # "idle" /\ (Falsy(tok[c]) \/ verifyAsync(tok[c]) = Reject)

\* Connections an event published to `room` is delivered to.
Recipients(room) == {c \in Conns : room \in rooms[c]}

\* C1: across successful connects and disconnects of U, user_status events are
\* published only on a 0->1 (online) or 1->0 (offline) change of U's
\* live-connection count: there are never more online events than 0->1
\* changes, nor more offline events than 1->0 changes.
C1_EventsOnlyOnCountTransitions ==
  \A u \in Users :
    CleanHistory(u) =>
    /\ CountOf(presLog[u], TRUE) <= trans[u].up
    /\ CountOf(presLog[u], FALSE) <= trans[u].down

\* C2: whenever no connect or disconnect handler is in progress for U (all of
\* U's handlers having succeeded), the persisted isOnline of U is true iff U
\* has a live authenticated connection.
C2_OnlineIffLiveConnection ==
  \A u \in Users :
    (CleanHistory(u) /\ Quiescent(u)) => (isOnline[u] <=> LiveCount(u) > 0)

\* C3: the only connection c of U closed while connection d of U (the only
\* other connection ever opened for U) was being accepted; once
\* handleDisconnect(c) and handleConnection(d) have both completed, isOnline of
\* U is true and the last user_status of U is online.
C3_ReconnectRaceEndsOnline ==
  \A c \in Conns, d \in Conns :
    ( /\ c # d
      /\ user[c] # None /\ user[d] = user[c]
      /\ hist[user[c]] = "race"
      /\ ~open[c] /\ dpc[c] = "done"
      /\ cpc[d] = "connected" /\ open[d]
      /\ \A e \in Conns \ {c, d} : e \notin ConnsOf(user[c]) )
    => /\ isOnline[user[c]]
       /\ presLog[user[c]] # <<>>
       /\ presLog[user[c]][Len(presLog[user[c]])] = TRUE

\* C4: the user_status events of U alternate online, offline, online, ...
\* starting with online.
C4_PresenceEventsAlternate ==
  \A u \in Users :
    \A i \in 1..Len(presLog[u]) : presLog[u][i] = (i % 2 = 1)

\* C5: a connection without a token, or with a rejected token, is never
\* registered: no identity is attached, it is in no room, neither handler
\* reaches a user.update or an emit, and once handleConnection has returned the
\* transport is disconnected.
C5_AuthFailureNeverRegisters ==
  \A c \in Conns :
    Unauthenticated(c) =>
      /\ user[c] = None
      /\ rooms[c] = {}
      /\ cpc[c] \in {"verify", "failed"}
      /\ dpc[c] \in {"none", "done"}
      /\ (cpc[c] = "failed" => ~open[c])

C5_Witness ==
  \E c \in Conns, d \in Conns :
    /\ cpc[c] = "failed" /\ Falsy(tok[c]) /\ dpc[c] = "done"
    /\ cpc[d] = "failed" /\ tok[d] = "bad" /\ dpc[d] = "done"

\* C6: after handleConnection succeeded on a connection of U that is still
\* open, its rooms are exactly user:U, presence:U and presence:F for every
\* followed id F the lookup returned.
C6_RoomsAfterConnect ==
  \A c \in Conns :
    (cpc[c] = "connected" /\ open[c]) =>
      rooms[c] = {UserRoom(user[c]), PresenceRoom(user[c])}
                   \cup {PresenceRoom(f) : f \in following[c]}

C6_Witness ==
  \E c \in Conns :
    cpc[c] = "connected" /\ open[c] /\ user[c] = "u1" /\ following[c] = {"u2"}

\* C7: a connection is in room user:X only if it authenticated as X, so an
\* event published to user:X reaches only connections owned by X.
C7_UserRoomOnlyOwner ==
  \A x \in Users : \A c \in Recipients(UserRoom(x)) : user[c] = x

C7_Witness ==
  \E c \in Conns, d \in Conns :
    /\ Recipients(UserRoom("u1")) = {c}
    /\ Recipients(UserRoom("u2")) = {d}
    /\ PresenceRoom("u2") \in rooms[c]

\* C8: a handled send_reaction whose addReaction succeeded published
\* message_reaction exactly twice, to user:<recipientId> and to user:<sender>,
\* both with the payload {messageId, userId = sender, reaction, id = id of the
\* persisted reaction record of (messageId, sender)}.
C8_ReactionPublishedToBoth ==
  \A r \in Reqs :
    rx[r].pc = "done" =>
      /\ Len(rx[r].out) = 2
      /\ rx[r].out[1].room = UserRoom(rx[r].recipientId)
      /\ rx[r].out[2].room = UserRoom(user[rx[r].client])
      /\ \A i \in 1..2 :
           /\ rx[r].out[i].event = "message_reaction"
           /\ rx[r].out[i].payload =
                [messageId |-> rx[r].messageId, userId |-> user[rx[r].client],
                 reaction |-> rx[r].reaction, id |-> rx[r].record]
      /\ \E x \in reactions :
           /\ x.id = rx[r].record
           /\ x.messageId = rx[r].messageId
           /\ x.userId = user[rx[r].client]

C8_Witness ==
  \E r \in Reqs, q \in Reqs :
    /\ rx[r].pc = "done" /\ rx[r].existing = NoRecord
    /\ rx[r].recipientId # user[rx[r].client]
    /\ rx[q].pc = "done" /\ rx[q].existing # NoRecord

\* C9: once addReaction has failed for a send_reaction, the handler has ended
\* with the failure (its promise rejected), it has published nothing, and it
\* called addReaction once only.
C9_FailedReactionPublishesNothing ==
  \A r \in Reqs :
    (rx[r].pc # "idle" /\ rx[r].rejected) =>
      /\ rx[r].pc = "error"
      /\ rx[r].out = <<>>
      /\ rx[r].calls = 1

\* Two concurrent send_reaction of one sender on one message: both found no
\* record, one created it, the other's create hit the unique index.
C9_Witness ==
  \E r \in Reqs, q \in Reqs :
    /\ r # q
    /\ rx[r].pc = "error" /\ rx[r].rejected /\ rx[r].existing = NoRecord
    /\ rx[q].pc = "done" /\ rx[q].existing = NoRecord
    /\ rx[q].messageId = rx[r].messageId
    /\ user[rx[q].client] = user[rx[r].client]

C11_MarkReadPersistsBeforePublish ==
  \A r \in Reqs :
    (mr[r].pc # "idle" /\ mr[r].out # <<>>) =>
      /\ mr[r].calls = 1
      /\ <<mr[r].conversationId, user[mr[r].client]>> \in lastReadAt

\* C12: NotificationsService.create publishes one notification event, to
\* user:<recipientId> and to no other room, carrying the created record, and
\* only once that record exists; a call whose creation failed published nothing.
C12_NotificationAfterCreate ==
  \A q \in Reqs :
    /\ (nt[q].pc # "idle" /\ nt[q].out # <<>>) =>
         /\ Len(nt[q].out) = 1
         /\ nt[q].out[1].room = UserRoom(nt[q].recipientId)
         /\ nt[q].out[1].event = "notification"
         /\ \E n \in notifications :
              /\ n.id = nt[q].out[1].payload
              /\ n.recipientId = nt[q].recipientId
    /\ nt[q].pc = "done" => nt[q].out # <<>>
    /\ (nt[q].pc # "idle" /\ nt[q].rejected) =>
         (nt[q].pc = "error" /\ nt[q].out = <<>>)

C12_Witness ==
  \E q \in Reqs, k \in Reqs :
    /\ nt[q].pc = "done" /\ nt[q].recipientId = "u1"
    /\ inbox # [c \in Conns |-> <<>>]
    /\ nt[k].pc = "error" /\ nt[k].rejected /\ nt[k].recipientId = "u3"

\* C14: with all handlers of U successful and no connection of U closed while
\* another one was being accepted, lastSeenAt of U has been written at most
\* once per 1->0 change of U's live-connection count: a disconnect that leaves
\* U with another live connection does not write it.
C14_LastSeenOnlyOnLastDisconnect ==
  \A u \in Users :
    (CleanHistory(u) /\ hist[u] = "clean") => lastSeenAt[u] <= trans[u].down

\* C13: a user_status event is published only by a handler whose status write
\* took effect: every change of a presence log is one event appended by a
\* connection of that user resuming after its write (online after isOnline =
\* true, offline after isOnline = false and lastSeenAt); a handler resumes there
\* only in the step in which its write takes effect; and a handler whose write
\* failed publishes nothing, then or later.
C13_PresenceAfterStatusWrite ==
  [][ /\ \A u \in Users :
           presLog'[u] # presLog[u] =>
             \E c \in Conns :
               /\ user[c] = u
               /\ \/ /\ cpc[c] = "emit" /\ cpc'[c] = "connected"
                     /\ presLog'[u] = Append(presLog[u], TRUE)
                  \/ /\ dpc[c] = "emit" /\ dpc'[c] = "done"
                     /\ presLog'[u] = Append(presLog[u], FALSE)
      /\ \A c \in Conns :
           /\ (cpc'[c] = "emit" /\ cpc[c] # "emit") =>
                /\ cpc[c] = "update"
                /\ isOnline'[user[c]]
           /\ (dpc'[c] = "emit" /\ dpc[c] # "emit") =>
                /\ dpc[c] = "update"
                /\ ~isOnline'[user[c]]
                /\ lastSeenAt'[user[c]] = lastSeenAt[user[c]] + 1
           /\ (cpc[c] = "update" /\ cpc'[c] = "failed") => presLog' = presLog
           /\ (dpc[c] = "update" /\ dpc'[c] = "done") => presLog' = presLog
           /\ cpc[c] = "failed" => cpc'[c] = "failed"
           /\ dpc[c] = "done" => dpc'[c] = "done"
    ]_vars

\* u1's connect failed at its status write (no online event, then the offline
\* event of its disconnect); u2 connected and its disconnect's write failed (no
\* offline event).
C13_Witness ==
  \E c \in Conns, d \in Conns :
    /\ user[c] = "u1" /\ following[c] = {"u2"} /\ cpc[c] = "failed"
    /\ dpc[c] = "done" /\ presLog["u1"] = <<FALSE>>
    /\ user[d] = "u2" /\ cpc[d] = "connected" /\ dpc[d] = "done"
    /\ ~open[d] /\ rooms[d] = {}
    /\ presLog["u2"] = <<TRUE>>

\* C15: disconnect processing takes effect at most once per connection:
\* handleDisconnect of a connection starts once (from "none"), never restarts
\* after its write or its emit, and stays finished, also when the catch block
\* of handleConnection calls client.disconnect() on a transport that already
\* closed; lastSeenAt is written only by a handler passing its write.
C15_DisconnectHandledOnce ==
  [][ /\ \A c \in Conns :
           /\ dpc[c] # "none" => dpc'[c] # "none"
           /\ (dpc'[c] = "update" /\ dpc[c] # "update") => dpc[c] = "none"
           /\ dpc[c] = "emit" => dpc'[c] \in {"emit", "done"}
           /\ dpc[c] = "done" => dpc'[c] = "done"
      /\ \A u \in Users :
           lastSeenAt'[u] # lastSeenAt[u] =>
             \E c \in Conns : user[c] = u /\ dpc[c] = "update" /\ dpc'[c] = "emit"
    ]_vars

\* A connection of u1 whose handleConnection ended in its catch block and
\* whose transport is closed: one offline write, one offline event.
C15_Witness ==
  \E c \in Conns :
    /\ cpc[c] = "failed" /\ user[c] = "u1" /\ ~open[c] /\ dpc[c] = "done"
    /\ lastSeenAt["u1"] = 1 /\ presLog["u1"] = <<FALSE>>

\* C16: a handleConnection that resumes after the transport of its connection
\* closed is a no-op: in a step that moves it forward it neither persists
\* isOnline nor publishes a user_status event.
C16_ResumeAfterCloseIsNoOp ==
  [][ \A c \in Conns :
        (~open[c] /\ cpc[c] \in Accepting /\ cpc'[c] # cpc[c]) =>
          /\ isOnline' = isOnline
          /\ presLog' = presLog
    ]_vars

C20_UnfollowLeavesPresenceRoom ==
  \A q \in Reqs, c \in Conns :
    ( /\ tg[q].pc = "done" /\ tg[q].result = "unfollowed"
      /\ \A k \in Reqs : tg[k].pc \in {"idle", "done", "error"}
      /\ followRows(tg[q].followerId, tg[q].followingId) = {}
      /\ user[c] = tg[q].followerId /\ open[c] /\ cpc[c] = "connected" )
    => PresenceRoom(tg[q].followingId) \notin rooms[c]

\* Connections of u whose handleConnection completed without failing (the
\* successful connects of u), and those of them whose transport has closed
\* since (the disconnects of u).
Connects(u) == {c \in Conns : cpc[c] = "connected" /\ user[c] = u}
Disconnects(u) == {c \in Connects(u) : ~open[c]}

\* C21: when no handler of U is in progress, after N successful connects and M
\* disconnects of U the number of live connections in room user:U is N - M
\* (and M never exceeds N).
C21_LiveConnectionCount ==
  \A u \in Users :
    Quiescent(u) =>
      /\ Cardinality(Disconnects(u)) <= Cardinality(Connects(u))
      /\ Cardinality(deliverLocal(UserRoom(u)))
           = Cardinality(Connects(u)) - Cardinality(Disconnects(u))

\* Two connects of u1 and one disconnect, handled to its end after its
\* handleConnection had completed: one live connection in user:u1.
C21_Witness ==
  /\ Quiescent("u1")
  /\ Cardinality(Connects("u1")) = 2
  /\ Cardinality(Disconnects("u1")) = 1
  /\ Cardinality(deliverLocal(UserRoom("u1"))) = 1
  /\ \A d \in Disconnects("u1") : rooms[d] = {} /\ dpc[d] = "done"
  /\ lastSeenAt["u1"] = 1

\* The tables of the database.
storedState == <<follows, isOnline, lastSeenAt, messages, reactions, conversations,
                 lastReadAt, notifications>>

\* C22: a step that handles a typing_start or typing_stop of an authenticated
\* connection changes no table and makes no persistence call, and publishes
\* exactly one event, to user:<recipientId>: user_typing {userId = the
\* sender's authenticated id, conversationId} for typing_start,
\* user_stopped_typing {conversationId} for typing_stop.
C22_TypingPublishesOnly ==
  [][ \A r \in Reqs :
        (ty'[r] # ty[r] /\ user[ty'[r].client] # None) =>
          /\ storedState' = storedState
          /\ ty'[r].calls = 0
          /\ ty'[r].pc = "done"
          /\ Len(ty'[r].out) = 1
          /\ ty'[r].out[1].room = UserRoom(ty'[r].recipientId)
          /\ ty'[r].event = "typing_start" =>
               /\ ty'[r].out[1].event = "user_typing"
               /\ ty'[r].out[1].payload =
                    [userId |-> user[ty'[r].client],
                     conversationId |-> ty'[r].conversationId]
          /\ ty'[r].event = "typing_stop" =>
               /\ ty'[r].out[1].event = "user_stopped_typing"
               /\ ty'[r].out[1].payload = [conversationId |-> ty'[r].conversationId]
    ]_vars

\* u1 started and stopped typing towards u2, and a read marker was written.
C22_Witness ==
  \E r \in Reqs, q \in Reqs :
    /\ ty[r].pc = "done" /\ ty[r].event = "typing_start"
    /\ ty[r].sender = "u1" /\ ty[r].recipientId = "u2"
    /\ ty[q].pc = "done" /\ ty[q].event = "typing_stop" /\ ty[q].recipientId = "u2"
    /\ lastReadAt # {}

\* C25: every event is published on behalf of a connection that has
\* authenticated: in a step in which a typing_start, typing_stop, mark_read or
\* send_reaction invocation publishes, its connection has an identity attached
\* (handleConnection has verified its token).
C25_NoEventBeforeAuthentication ==
  [][ /\ \A r \in Reqs :
           (ty'[r] # ty[r] /\ ty'[r].out # <<>>) => user[ty'[r].client] # None
      /\ \A r \in Reqs :
           (mr'[r] # mr[r] /\ mr'[r].out # <<>>) => user[mr'[r].client] # None
      /\ \A r \in Reqs :
           (rx'[r] # rx[r] /\ rx'[r].out # <<>>) => user[rx'[r].client] # None
    ]_vars

\* C26: when handleConnection joins the presence rooms of a connection of U
\* (its follow lookup has returned), it joins presence:F for another user F
\* only if U's follow of F has status ACCEPTED; a PENDING follow gives no
\* subscription to F's user_status events.
C26_PresenceOnlyForAcceptedFollows ==
  [][ \A c \in Conns :
        (cpc[c] = "follows" /\ cpc'[c] = "update") =>
          \A f \in Users \ {user[c]} :
            PresenceRoom(f) \in rooms'[c] => <<user[c], f, "ACCEPTED">> \in follows
    ]_vars

\* The users with a participant row in the conversation that contains the message.
participantsOfMessage(messageId) ==
  UNION {Range(cv.participants) :
           cv \in {x \in conversations :
                     \E m \in messages : m.id = messageId /\ m.conversationId = x.id}}

\* C27: a reaction is persisted, and message_reaction published, only for a
\* sender that is a participant of the conversation containing the message,
\* and it is published only to a recipientId that is a participant of it.
C27_ReactionOnlyAmongParticipants ==
  /\ \A x \in reactions : x.userId \in participantsOfMessage(x.messageId)
  /\ \A r \in Reqs :
       (rx[r].pc # "idle" /\ rx[r].out # <<>>) =>
         /\ SenderOf(r) \in participantsOfMessage(rx[r].messageId)
         /\ rx[r].recipientId \in participantsOfMessage(rx[r].messageId)

\* C28: for one handled send_reaction every connection is sent at most one
\* message_reaction event, also when recipientId is the sender's own id.
C28_ReactionDeliveredOnce ==
  \A r \in Reqs, c \in Conns :
    rx[r].pc = "done" =>
      Cardinality({i \in 1..Len(rx[r].out) : c \in deliverLocal(rx[r].out[i].room)}) <= 1

\* C29: conversationDeleted is published only if the conversation is deleted:
\* a deleteConversation call that failed (requester not a participant, or a
\* persistence call, conversation.delete included, rejected) has published no
\* conversationDeleted event, and a call that completed has deleted the
\* conversation.
C29_DeletedEventOnlyIfDeleted ==
  \A q \in Reqs :
    /\ dc[q].pc = "error" => dc[q].out = <<>>
    /\ dc[q].pc = "done" =>
         \A cv \in conversations : cv.id # dc[q].conversationId

\* The non-group conversations whose participants are exactly a and b.
directConversations(a, b) ==
  {cv \in conversations : ~cv.isGroup /\ Range(cv.participants) = {a, b}}

\* C30: whatever the interleaving of sendMessage (recipientId, no
\* conversationId) and createGroup (one other participant, no name) calls
\* between two users, at most one non-group conversation of the two exists.
C30_OneDirectConversationPerPair ==
  \A a \in Users, b \in Users :
    a # b => Cardinality(directConversations(a, b)) <= 1

====
